---- MODULE Spec2Model ----
(***************************************************************************)
(* paper-extract: the schema loader of src/schema.rs (parse_schema_csv and *)
(* the SchemaField validator) and the extraction run of src/main.rs        *)
(* (read_schema, call_openrouter, write_csv).                              *)
(*                                                                         *)
(* A Rust String is modelled as the sequence of its Unicode code points;   *)
(* String::len() is the UTF-8 byte length, computed from the code points.  *)
(* Spec is the schema loader; RunSpec is one run of the program over a     *)
(* schema file of at least one data row.                                   *)
(***************************************************************************)
EXTENDS Integers, Sequences, FiniteSets, TLC

VARIABLES
    \* ---- schema.rs, parse_schema_csv ----
    input,          \* the data rows of csv_content, in file order
    index,          \* rows consumed so far by the reader loop
    fields,         \* Vec<SchemaField> accumulated so far
    seen_names,     \* HashSet<String> of the names accepted so far
    result,         \* what parse_schema_csv has returned, if anything
    \* ---- main.rs, one run ----
    pc,             \* position of main
    run_rows,       \* the data rows of the schema file given to main
    panic_strategy, \* build profile: "unwind" or "abort"
    schema,         \* Vec<SchemaField> loaded by main.rs read_schema
    calls,          \* the extraction calls issued: the field list of each
    response,       \* the Value returned by call_openrouter
    extracted_data, \* the decoded ExtractionResult (HashMap)
    row_i,          \* index of the schema field write_csv handles next
    file,           \* the output file: absent, or its records
    buffer,         \* records held in the csv Writer's buffer
    panic_msg       \* the panic message, once the run has panicked

loader_vars == <<input, index, fields, seen_names, result>>
run_vars == <<pc, run_rows, panic_strategy, schema, calls, response,
              extracted_data, row_i, file, buffer, panic_msg>>
vars == <<input, index, fields, seen_names, result, pc, run_rows,
          panic_strategy, schema, calls, response, extracted_data, row_i,
          file, buffer, panic_msg>>

(***************************************************************************)
(* Bounds                                                                  *)
(***************************************************************************)
MaxRows == 3        \* data rows of a schema given to parse_schema_csv
MaxFields == 3      \* data rows of the schema file of a run
MaxKeys == 2        \* members of the JSON object the backend answers with
MaxBatchSize == 3   \* the batch sizes k considered, 1..MaxBatchSize

(***************************************************************************)
(* Strings                                                                 *)
(***************************************************************************)
Rep(c, n) == [i \in 1..n |-> c]

Utf8Width(c) == IF c < 128 THEN 1 ELSE IF c < 2048 THEN 2 ELSE IF c < 65536 THEN 3 ELSE 4

\* String::len(): the UTF-8 byte length, the sum of Utf8Width over the code
\* points (one byte each, plus one for each code point past every threshold)
len(s) ==
    Cardinality({i \in 1..Len(s) : Utf8Width(s[i]) >= 1})
    + Cardinality({i \in 1..Len(s) : Utf8Width(s[i]) >= 2})
    + Cardinality({i \in 1..Len(s) : Utf8Width(s[i]) >= 3})
    + Cardinality({i \in 1..Len(s) : Utf8Width(s[i]) >= 4})

is_ascii(s) == \A i \in 1..Len(s) : s[i] < 128

\* the number of characters of a string, as the documentation counts length
chars(s) == Len(s)

(***************************************************************************)
(* schema.rs: the SchemaField validator                                    *)
(***************************************************************************)
FIELD_NAME_LIMIT == 40
DESCRIPTION_LIMIT == 120
\* the limits the validator's own messages and the tests state
FIELD_NAME_DOC_LIMIT == 16
DESCRIPTION_DOC_LIMIT == 100

NoString == <<>>

\* The error texts of schema.rs, each kept as its format string plus the
\* values formatted into it.
FieldNameTooLong == "Field name '{}' exceeds 16 characters (length: {})"
NonAsciiFieldName == "Field name '{}' contains non-ASCII characters"
DescriptionTooLong == "Description for field '{}' exceeds 100 characters (length: {})"
NonAsciiDescription == "Description for field '{}' contains non-ASCII characters"
InvalidKind == "Invalid schema kind '{}' for field '{}'. Must be one of: categorical, number, text (lowercase only)"
InvalidInfer == "Invalid infer value '{}' for field '{}'. Must be true or false (lowercase only)"
DuplicateFieldName == "Duplicate field name '{}' found in schema at row {}"
FailedToParseRow == "Failed to parse schema row {row_num}: {e}"
NoError == "-"

DeError(template, name, shown) == [template |-> template, name |-> name, shown |-> shown]

SchemaKind(raw_kind) ==
    CASE raw_kind = "categorical" -> "Categorical"
      [] raw_kind = "number" -> "Number"
      [] raw_kind = "text" -> "Text"
      [] OTHER -> "none"

\* SchemaField::deserialize applied to one raw row: Ok(field) or Err(e)
deserialize(raw) ==
    IF len(raw.field_name) > FIELD_NAME_LIMIT
    THEN [ok |-> FALSE, err |-> DeError(FieldNameTooLong, raw.field_name, len(raw.field_name))]
    ELSE IF ~is_ascii(raw.field_name)
    THEN [ok |-> FALSE, err |-> DeError(NonAsciiFieldName, raw.field_name, 0)]
    ELSE IF len(raw.description) > DESCRIPTION_LIMIT
    THEN [ok |-> FALSE, err |-> DeError(DescriptionTooLong, raw.field_name, len(raw.description))]
    ELSE IF ~is_ascii(raw.description)
    THEN [ok |-> FALSE, err |-> DeError(NonAsciiDescription, raw.field_name, 0)]
    ELSE IF SchemaKind(raw.kind) = "none"
    THEN [ok |-> FALSE, err |-> DeError(InvalidKind, raw.field_name, 0)]
    ELSE IF raw.infer \notin {"true", "false"}
    THEN [ok |-> FALSE, err |-> DeError(InvalidInfer, raw.field_name, 0)]
    ELSE [ok |-> TRUE,
          field |-> [field_name |-> raw.field_name,
                     description |-> raw.description,
                     kind |-> SchemaKind(raw.kind),
                     infer |-> (raw.infer = "true")]]

(***************************************************************************)
(* schema.rs: parse_schema_csv                                             *)
(***************************************************************************)
Running == [status |-> "running", fields |-> <<>>, template |-> NoError,
            row_num |-> 0, cause |-> NoError, name |-> NoString]
Ok(fs) == [status |-> "ok", fields |-> fs, template |-> NoError,
           row_num |-> 0, cause |-> NoError, name |-> NoString]
\* Err(format!("Failed to parse schema row {row_num}: {e}"))
ParseErr(row_num, e) == [status |-> "err", fields |-> <<>>, template |-> FailedToParseRow,
                         row_num |-> row_num, cause |-> e.template, name |-> e.name]
\* Err(format!("Duplicate field name '{}' found in schema at row {}", ..))
DuplicateErr(name, row_num) == [status |-> "err", fields |-> <<>>, template |-> DuplicateFieldName,
                                row_num |-> row_num, cause |-> NoError, name |-> name]

\* a row number that forgets the header row
RowNumFromOne(idx) == idx + 1

\* index.saturating_add(2): the header is row 1; index counts data rows from 0
RowNum(idx) == idx + 2

\* an insert whose result is not looked at
InsertedAlways(seen, name) == TRUE

\* seen_names.insert(name): TRUE when the name was not yet in the set
Inserted(seen, name) == name \notin seen

\* fields.push(field)
Push(fs, field) == Append(fs, field)

A == <<97>>
B == <<98>>
C == <<99>>
Name18 == <<116, 104, 105, 115, 95, 102, 105, 101, 108, 100, 95, 110, 97, 109, 101, 95, 49, 55>>
Name41 == Rep(110, 41)
NameNonAscii == <<102, 233>>
Desc == <<68>>
Desc107 == Rep(120, 107)
Desc121 == Rep(120, 121)
DescNonAscii == <<68, 233>>

Raw(n, d, k, i) == [field_name |-> n, description |-> d, kind |-> k, infer |-> i]

\* the raw rows a schema is drawn from
RawRows ==
    { Raw(A, Desc, "text", "true"),
      Raw(B, Desc, "number", "false"),
      Raw(A, Desc, "categorical", "false"),
      Raw(Name18, Desc, "text", "true"),
      Raw(C, Desc107, "text", "false"),
      Raw(Name41, Desc, "text", "true"),
      Raw(NameNonAscii, Desc, "text", "true"),
      Raw(B, Desc121, "text", "true"),
      Raw(B, DescNonAscii, "text", "true"),
      Raw(A, Desc, "TEXT", "true"),
      Raw(B, Desc, "text", "True"),
      Raw(Name41, Desc121, "boolean", "maybe") }

SeqsUpTo(S, n) == UNION { [1..k -> S] : k \in 0..n }

\* one iteration of the for loop of parse_schema_csv
ReadRow ==
    /\ result.status = "running"
    /\ index < Len(input)
    /\ LET raw == input[index + 1]
           row_num == RowNum(index)
           d == deserialize(raw)
       IN  IF ~d.ok
           THEN /\ result' = ParseErr(row_num, d.err)
                /\ UNCHANGED <<fields, seen_names>>
           ELSE IF ~Inserted(seen_names, d.field.field_name)
           THEN /\ result' = DuplicateErr(d.field.field_name, row_num)
                /\ UNCHANGED <<fields, seen_names>>
           ELSE /\ seen_names' = seen_names \cup {d.field.field_name}
                /\ fields' = Push(fields, d.field)
                /\ UNCHANGED result
    /\ index' = index + 1
    /\ UNCHANGED input
    /\ UNCHANGED run_vars

\* the reader is exhausted: Ok(fields)
EndOfInput ==
    /\ result.status = "running"
    /\ index = Len(input)
    /\ result' = Ok(fields)
    /\ UNCHANGED <<input, index, fields, seen_names>>
    /\ UNCHANGED run_vars

(***************************************************************************)
(* JSON values: a type tag and, for strings and numbers, the literal       *)
(***************************************************************************)
J(t, text) == [t |-> t, text |-> text]
JNull == J("null", "")
JMissing == J("missing", "")

Members == {"value", "match_type", "comment", "page", "xmin", "ymin", "xmax", "ymax"}

\* one per-field JSON object of a backend answer
JRecord(value, match_type, comment, page, box) ==
    [value |-> value, match_type |-> match_type, comment |-> comment, page |-> page,
     xmin |-> box, ymin |-> box, xmax |-> box, ymax |-> box]

RecFound == JRecord(J("string", "v"), J("string", "found"), J("string", "c"),
                    J("integer", "1"), J("float", "0.5"))
RecNullComment == JRecord(JNull, J("string", "not_found"), JNull,
                          J("integer", "0"), J("integer", "0"))
RecNoPage == JRecord(J("integer", "42"), J("string", "found"), J("string", "c"),
                     JMissing, J("float", "0.5"))

JRecords == {RecFound, RecNullComment, RecNoPage}

X == <<120>>
AnswerKeys == {A, B, X}

\* response["choices"][0]["message"]["content"]: a Value that is a string or
\* not; a string is JSON text or not; JSON text that is an object has
\* members, in the order of the text (a key may repeat)
Content(is_string, is_json, members) ==
    [is_string |-> is_string, is_json |-> is_json, members |-> members]

Contents ==
    { Content(FALSE, FALSE, <<>>), Content(TRUE, FALSE, <<>>) }
    \cup { Content(TRUE, TRUE, m) : m \in SeqsUpTo(AnswerKeys \X JRecords, MaxKeys) }

(***************************************************************************)
(* schema.rs and main.rs: build_json_schema, the output contract           *)
(***************************************************************************)
FieldSchema(field_type, description, comment_types, closed) ==
    [type |-> "object",
     properties |-> [value |-> {field_type, "null"},
                     match_type |-> {"string"},
                     comment |-> comment_types,
                     page |-> {"integer"},
                     xmin |-> {"number"}, ymin |-> {"number"},
                     xmax |-> {"number"}, ymax |-> {"number"}],
     description |-> description,
     enum |-> {"found", "not_found", "inferred"},
     required |-> Members,
     additionalProperties |-> ~closed]

Names(fs) == [i \in 1..Len(fs) |-> fs[i].field_name]
NameSet(fs) == {fs[i].field_name : i \in 1..Len(fs)}

\* properties.insert(name, field_schema): a later field of the same name
\* replaces the earlier one
LastOf(fs, name) == fs[CHOOSE i \in 1..Len(fs) :
                        /\ fs[i].field_name = name
                        /\ \A j \in (i + 1)..Len(fs) : fs[j].field_name # name]

\* schema.rs build_json_schema, over SchemaFields whose kind is a SchemaKind
build_json_schema(fs) ==
    [type |-> "object",
     properties |-> [n \in NameSet(fs) |->
        FieldSchema(IF LastOf(fs, n).kind = "Number" THEN "number" ELSE "string",
                    LastOf(fs, n).description, {"string", "null"}, TRUE)],
     required |-> Names(fs),
     additionalProperties |-> FALSE]

\* main.rs build_json_schema, over SchemaFields whose kind is a String
main_build_json_schema(fs) ==
    [type |-> "object",
     properties |-> [n \in NameSet(fs) |->
        FieldSchema(IF LastOf(fs, n).kind = "number" THEN "number" ELSE "string",
                    LastOf(fs, n).description, {"string"}, FALSE)],
     required |-> Names(fs),
     additionalProperties |-> FALSE]

\* JSON Schema "type": a value is of one of the listed types
HasType(j, types) ==
    \/ j.t \in types
    \/ j.t = "integer" /\ "number" \in types

\* a per-field object is valid against a field schema
ValidField(rec, fschema) ==
    /\ \A m \in fschema.required : rec[m].t # "missing"
    /\ \A m \in Members : rec[m].t # "missing" => HasType(rec[m], fschema.properties[m])
    /\ rec.match_type.t = "string" => rec.match_type.text \in fschema.enum

\* an answer (the members of its top-level object) is valid against a contract
Conforms(members, contract) ==
    /\ \A i \in 1..Len(contract.required) :
          \E k \in 1..Len(members) : members[k][1] = contract.required[i]
    /\ \A k \in 1..Len(members) :
          /\ contract.additionalProperties \/ members[k][1] \in DOMAIN contract.properties
          /\ members[k][1] \in DOMAIN contract.properties
                => ValidField(members[k][2], contract.properties[members[k][1]])

(***************************************************************************)
(* main.rs: ExtractedField and ExtractionResult                            *)
(***************************************************************************)
\* what #[derive(Deserialize)] accepts for each member of ExtractedField
DecodesValue(j) == TRUE                             \* Option<serde_json::Value>
DecodesString(j) == j.t = "string"                  \* String
DecodesI64(j) == j.t = "integer"                    \* i64
DecodesF64(j) == j.t \in {"integer", "float"}       \* f64

DecodesField(rec) ==
    /\ DecodesValue(rec.value)
    /\ DecodesString(rec.match_type)
    /\ DecodesString(rec.comment)
    /\ DecodesI64(rec.page)
    /\ DecodesF64(rec.xmin) /\ DecodesF64(rec.ymin)
    /\ DecodesF64(rec.xmax) /\ DecodesF64(rec.ymax)

\* the ExtractedField decoded from a per-field object
ExtractedField(rec) ==
    [value |-> IF rec.value.t \in {"missing", "null"} THEN JNull ELSE rec.value,
     match_type |-> rec.match_type.text,
     comment |-> rec.comment.text,
     page |-> rec.page.text,
     xmin |-> rec.xmin.text, ymin |-> rec.ymin.text,
     xmax |-> rec.xmax.text, ymax |-> rec.ymax.text]

\* serde_json::from_str::<ExtractionResult>(content_str) succeeds
Decodes(content) ==
    /\ content.is_json
    /\ \A k \in 1..Len(content.members) : DecodesField(content.members[k][2])

\* the HashMap built from the members: a repeated key keeps its last value
ExtractionResult(members) ==
    [key \in {members[k][1] : k \in 1..Len(members)} |->
        ExtractedField(members[CHOOSE k \in 1..Len(members) :
                                  /\ members[k][1] = key
                                  /\ \A j \in (k + 1)..Len(members) : members[j][1] # key][2])]

\* extracted_data.get(&field.field_name) is Some
Has(data, name) == name \in DOMAIN data
Get(data, name) == data[name]

(***************************************************************************)
(* main.rs: write_csv                                                      *)
(***************************************************************************)
FieldNameHeader == <<102, 105, 101, 108, 100, 95, 110, 97, 109, 101>>

headers == [field_name |-> FieldNameHeader, value |-> "value", match_type |-> "match_type",
            comment |-> "comment", page |-> "page", xmin |-> "xmin", ymin |-> "ymin",
            xmax |-> "xmax", ymax |-> "ymax"]

\* the value cell: a string as it is, a number or boolean printed, null or
\* absent as the empty string, anything else as its JSON text
ValueCell(v) == IF v.t = "null" THEN "" ELSE v.text

\* a loop that walks the schema backwards
FieldAtReversed(fs, i) == fs[Len(fs) + 1 - i]

\* the field of the schema the loop of write_csv handles at step i
FieldAt(fs, i) == fs[i]

\* the data row written for a schema field
Row(field, field_data) ==
    [field_name |-> field.field_name, value |-> ValueCell(field_data.value),
     match_type |-> field_data.match_type, comment |-> field_data.comment,
     page |-> field_data.page, xmin |-> field_data.xmin, ymin |-> field_data.ymin,
     xmax |-> field_data.xmax, ymax |-> field_data.ymax]

NoFile == [exists |-> FALSE, records |-> <<>>]
\* File::create: the file exists and is empty
Created == [exists |-> TRUE, records |-> <<>>]
\* writer.flush(): the buffered records reach the file
Flushed(f, buf) == [exists |-> f.exists, records |-> f.records \o buf]

NoPanic == [template |-> NoError, name |-> NoString]
PanicMsg(template, name) == [template |-> template, name |-> name]

\* A panic ends the run. When the build unwinds, the csv Writer is dropped
\* and its Drop flushes the buffer into the file; when it aborts, it is not.
Panic(msg) ==
    /\ pc' = "panicked"
    /\ panic_msg' = msg
    /\ IF panic_strategy = "unwind" /\ file.exists
       THEN file' = Flushed(file, buffer) /\ buffer' = <<>>
       ELSE UNCHANGED <<file, buffer>>

(***************************************************************************)
(* main.rs: read_schema                                                    *)
(***************************************************************************)
\* #[derive(Deserialize)] for main.rs SchemaField: three strings and a bool
main_deserialize(raw) ==
    IF raw.infer \notin {"true", "false"}
    THEN [ok |-> FALSE]
    ELSE [ok |-> TRUE,
          field |-> [field_name |-> raw.field_name, description |-> raw.description,
                     kind |-> raw.kind, infer |-> (raw.infer = "true")]]

RunRows ==
    { Raw(A, Desc, "text", "true"),
      Raw(B, Desc, "number", "false"),
      Raw(C, Desc, "text", "maybe") }

main_read_schema(rows) ==
    IF \A i \in 1..Len(rows) : main_deserialize(rows[i]).ok
    THEN [ok |-> TRUE, fields |-> [i \in 1..Len(rows) |-> main_deserialize(rows[i]).field]]
    ELSE [ok |-> FALSE, fields |-> <<>>]

LoaderIdle ==
    /\ input = <<>>
    /\ index = 0
    /\ fields = <<>>
    /\ seen_names = {}
    /\ result = Running

\* let schema = read_schema(schema_path)
ReadSchema ==
    /\ pc = "read_schema"
    /\ LET r == main_read_schema(run_rows)
       IN  IF r.ok
           THEN /\ schema' = r.fields
                /\ pc' = "call_openrouter"
                /\ UNCHANGED <<panic_msg, file, buffer>>
           ELSE /\ Panic(PanicMsg("Failed to parse schema row", NoString))
                /\ UNCHANGED schema
    /\ UNCHANGED <<run_rows, panic_strategy, calls, response, extracted_data, row_i>>
    /\ UNCHANGED loader_vars

\* the requests main sends for a field list: one call_openrouter over all of it
Requests(fs) == << [fields |-> fs, json_schema |-> main_build_json_schema(fs)] >>

\* let response = call_openrouter(pdf_base64, &schema, &api_key).await
CallOpenrouter ==
    /\ pc = "call_openrouter"
    /\ calls' = calls \o Requests(schema)
    /\ \E c \in Contents : response' = c
    /\ pc' = "write_csv"
    /\ UNCHANGED <<run_rows, panic_strategy, schema, extracted_data, row_i, file,
                   buffer, panic_msg>>
    /\ UNCHANGED loader_vars

\* the request cannot be sent, or the response body is not JSON
CallFails ==
    /\ pc = "call_openrouter"
    /\ calls' = calls \o Requests(schema)
    /\ \E t \in {"Failed to send request to OpenRouter", "Failed to read response",
                 "Failed to parse JSON response"} : Panic(PanicMsg(t, NoString))
    /\ UNCHANGED <<run_rows, panic_strategy, schema, response, extracted_data, row_i>>
    /\ UNCHANGED loader_vars

\* write_csv, lines 224-240: File::create, Writer::from_writer, write_record(&headers)
CreateOutput ==
    /\ pc = "write_csv"
    /\ file' = Created
    /\ buffer' = <<headers>>
    /\ pc' = "decode"
    /\ UNCHANGED <<run_rows, panic_strategy, schema, calls, response, extracted_data,
                   row_i, panic_msg>>
    /\ UNCHANGED loader_vars

\* write_csv, lines 242-250: the content must be a string that decodes
Decode ==
    /\ pc = "decode"
    /\ IF ~response.is_string
       THEN /\ Panic(PanicMsg("Expected string content in response", NoString))
            /\ UNCHANGED <<extracted_data, row_i>>
       ELSE IF ~Decodes(response)
       THEN /\ Panic(PanicMsg("Failed to parse extracted data into ExtractionResult", NoString))
            /\ UNCHANGED <<extracted_data, row_i>>
       ELSE /\ extracted_data' = ExtractionResult(response.members)
            /\ row_i' = 1
            /\ pc' = "rows"
            /\ UNCHANGED <<panic_msg, file, buffer>>
    /\ UNCHANGED <<run_rows, panic_strategy, schema, calls, response>>
    /\ UNCHANGED loader_vars

\* a loop that skips a field the answer lacks instead of failing
WriteRowSkipMissing ==
    /\ pc = "rows"
    /\ row_i <= Len(schema)
    /\ LET field == FieldAt(schema, row_i)
       IN  IF ~Has(extracted_data, field.field_name)
           THEN UNCHANGED buffer
           ELSE buffer' = Append(buffer, Row(field, Get(extracted_data, field.field_name)))
    /\ row_i' = row_i + 1
    /\ UNCHANGED <<pc, panic_msg, file>>
    /\ UNCHANGED <<run_rows, panic_strategy, schema, calls, response, extracted_data>>
    /\ UNCHANGED loader_vars

\* write_csv, lines 252-282: one iteration of the loop over the schema fields
WriteRow ==
    /\ pc = "rows"
    /\ row_i <= Len(schema)
    /\ LET field == FieldAt(schema, row_i)
       IN  IF ~Has(extracted_data, field.field_name)
           THEN /\ Panic(PanicMsg("Field {} not found in extraction result", field.field_name))
                /\ UNCHANGED row_i
           ELSE /\ buffer' = Append(buffer, Row(field, Get(extracted_data, field.field_name)))
                /\ row_i' = row_i + 1
                /\ UNCHANGED <<pc, panic_msg, file>>
    /\ UNCHANGED <<run_rows, panic_strategy, schema, calls, response, extracted_data>>
    /\ UNCHANGED loader_vars

\* write_csv, line 284, and the return to main
Flush ==
    /\ pc = "rows"
    /\ row_i > Len(schema)
    /\ file' = Flushed(file, buffer)
    /\ buffer' = <<>>
    /\ pc' = "done"
    /\ UNCHANGED <<run_rows, panic_strategy, schema, calls, response, extracted_data,
                   row_i, panic_msg>>
    /\ UNCHANGED loader_vars

RunIdle ==
    /\ pc = "idle"
    /\ run_rows = <<>>
    /\ panic_strategy = "unwind"
    /\ schema = <<>>
    /\ calls = <<>>
    /\ response = Content(FALSE, FALSE, <<>>)
    /\ extracted_data = <<>>
    /\ row_i = 0
    /\ file = NoFile
    /\ buffer = <<>>
    /\ panic_msg = NoPanic

Init ==
    /\ input \in SeqsUpTo(RawRows, MaxRows)
    /\ index = 0
    /\ fields = <<>>
    /\ seen_names = {}
    /\ result = Running
    /\ RunIdle

Next == ReadRow \/ EndOfInput

Spec == Init /\ [][Next]_vars

RunInit ==
    /\ LoaderIdle
    /\ pc = "read_schema"
    /\ run_rows \in SeqsUpTo(RunRows, MaxFields) \ {<<>>}
    /\ panic_strategy \in {"unwind", "abort"}
    /\ schema = <<>>
    /\ calls = <<>>
    /\ response = Content(FALSE, FALSE, <<>>)
    /\ extracted_data = <<>>
    /\ row_i = 0
    /\ file = NoFile
    /\ buffer = <<>>
    /\ panic_msg = NoPanic

RunNext == ReadSchema \/ CallOpenrouter \/ CallFails \/ CreateOutput \/ Decode \/ WriteRow \/ Flush

RunSpec == RunInit /\ [][RunNext]_vars

(***************************************************************************)
(* Properties of the schema loader (specification Spec)                    *)
(***************************************************************************)
Returned == result.status # "running"

\* row j (1-based among the data rows) carries the name of an earlier row
IsRepeat(rows, j) == \E i \in 1..(j - 1) : rows[i].field_name = rows[j].field_name
HasDuplicate(rows) == \E j \in 1..Len(rows) : IsRepeat(rows, j)

\* the row number, header counted as row 1, of data row j
RowNumberOf(j) == j + 1

\* C2: every schema with a row whose field_name is longer than 16 characters
\* is rejected, and when that row is the one the loader stops at, the error
\* says "exceeds 16 characters".
C2_LongFieldNameRejected ==
    Returned =>
        \A i \in 1..Len(input) :
            chars(input[i].field_name) > FIELD_NAME_DOC_LIMIT =>
                /\ result.status = "err"
                /\ index = i => result.cause = FieldNameTooLong

\* C3: every schema with a row whose description is longer than 100
\* characters (its field_name being valid) is rejected, and when that row is
\* the one the loader stops at, the error says "exceeds 100 characters".
C3_LongDescriptionRejected ==
    Returned =>
        \A i \in 1..Len(input) :
            ( /\ chars(input[i].description) > DESCRIPTION_DOC_LIMIT
              /\ chars(input[i].field_name) <= FIELD_NAME_DOC_LIMIT
              /\ is_ascii(input[i].field_name) ) =>
                /\ result.status = "err"
                /\ index = i => result.cause = DescriptionTooLong

\* C4 as stated: a schema in which two rows have the same field_name is
\* rejected with an error that names the row number of a second occurrence.
C4_ErrorNamesSecondOccurrence ==
    (Returned /\ HasDuplicate(input)) =>
        /\ result.status = "err"
        /\ \E j \in 1..Len(input) : IsRepeat(input, j) /\ result.row_num = RowNumberOf(j)

\* the first data row that fails row validation or repeats an earlier name
Offends(rows, j) == ~deserialize(rows[j]).ok \/ IsRepeat(rows, j)
FirstOffender(rows) ==
    CHOOSE j \in 1..Len(rows) : Offends(rows, j) /\ \A i \in 1..(j - 1) : ~Offends(rows, i)

\* C4 amended: a schema in which two rows have the same field_name is
\* rejected, and the error names the row number of the earliest row that
\* fails row validation or repeats the field_name of an earlier row; when
\* that row passes row validation, the error is the duplicate-name error and
\* the row is a second occurrence.
C4_ErrorNamesFirstOffender ==
    (Returned /\ HasDuplicate(input)) =>
        LET j == FirstOffender(input)
        IN  /\ result.status = "err"
            /\ result.row_num = RowNumberOf(j)
            /\ deserialize(input[j]).ok =>
                  /\ IsRepeat(input, j)
                  /\ result.template = DuplicateFieldName
                  /\ result.name = input[j].field_name

\* a duplicate-name error at the third data row, two valid rows before it
C4_Witness ==
    /\ Len(input) = 3
    /\ input[1].field_name # input[2].field_name
    /\ input[3].field_name = input[1].field_name
    /\ result.template = DuplicateFieldName
    /\ result.row_num = 4

\* C8: an accepted schema yields one field per data row, in row order, with
\* no field_name twice.
C8_AcceptedKeepsRowsInOrder ==
    result.status = "ok" =>
        /\ Len(result.fields) = Len(input)
        /\ \A i \in 1..Len(input) :
              /\ result.fields[i].field_name = input[i].field_name
              /\ result.fields[i].description = input[i].description
        /\ \A i, j \in 1..Len(result.fields) :
              i # j => result.fields[i].field_name # result.fields[j].field_name

\* three rows of different names accepted
C8_Witness ==
    /\ result.status = "ok"
    /\ Len(input) = 3
    /\ Len(result.fields) = 3

(***************************************************************************)
(* Properties of a run (specification RunSpec)                             *)
(***************************************************************************)
Ended == pc \in {"done", "panicked"}

\* the data rows a complete output holds: one per schema field
CompleteOutput(f, fs) ==
    /\ f.exists
    /\ Len(f.records) = Len(fs) + 1
    /\ f.records[1] = headers
    /\ \A i \in 1..Len(fs) : f.records[i + 1].field_name = fs[i].field_name

\* C1: a run that has ended left either a result row for every schema field
\* or no output at all; a failed run left no output file.
C1_AllRowsOrNoOutput ==
    Ended =>
        /\ CompleteOutput(file, schema) \/ ~file.exists
        /\ pc = "panicked" => ~file.exists

\* the keys of the answer's top-level object
KeysOf(content) == {content.members[k][1] : k \in 1..Len(content.members)}

\* C5: a run that completes has decoded an ExtractionResult whose key set is
\* exactly the set of the schema's field_names.
C5_KeysEqualSchemaNames ==
    pc = "done" => DOMAIN extracted_data = NameSet(schema)

\* the answer was a string that decoded, and write_csv went on with it
AnswerDecoded ==
    /\ pc \in {"rows", "done", "panicked"}
    /\ response.is_string
    /\ Decodes(response)

\* the schema fields, by position, the answer has no entry for
MissingFields == {i \in 1..Len(schema) : schema[i].field_name \notin KeysOf(response)}
FirstMissing == CHOOSE i \in MissingFields : \A j \in MissingFields : i <= j

\* C6: when the decoded answer lacks a schema field the run never completes,
\* its failure names the first missing field in schema order, and no row is
\* written for a missing field.
C6_MissingFieldFails ==
    (AnswerDecoded /\ MissingFields # {}) =>
        /\ pc # "done"
        /\ pc = "rows" => row_i <= FirstMissing
        /\ pc = "panicked" =>
              panic_msg = PanicMsg("Field {} not found in extraction result",
                                   schema[FirstMissing].field_name)
        /\ \A k \in 1..Len(file.records \o buffer) :
              (file.records \o buffer)[k].field_name \notin
                  {schema[i].field_name : i \in MissingFields}

\* the run failed on the second of two fields, the first one present
C6_Witness ==
    /\ AnswerDecoded
    /\ Len(schema) >= 2
    /\ MissingFields # {}
    /\ FirstMissing = 2
    /\ pc = "panicked"

CeilDiv(n, k) == (n + k - 1) \div k

RECURSIVE Concat(_)
Concat(ss) == IF ss = <<>> THEN <<>> ELSE Head(ss) \o Concat(Tail(ss))

\* C7: for every batch size k >= 1 the fields go out in ceil(n/k) calls of at
\* most k fields each, whose concatenation is the field sequence.
C7_CeilBatches ==
    pc \in {"write_csv", "decode", "rows", "done"} =>
        \A k \in 1..MaxBatchSize :
            /\ Len(calls) = CeilDiv(Len(schema), k)
            /\ \A c \in 1..Len(calls) : Len(calls[c].fields) <= k
            /\ Concat([c \in 1..Len(calls) |-> calls[c].fields]) = schema

\* C9: a completed run wrote the header and then one row per schema field,
\* in schema order.
C9_RowsInSchemaOrder ==
    pc = "done" =>
        /\ file.exists
        /\ buffer = <<>>
        /\ Len(file.records) = Len(schema) + 1
        /\ file.records[1] = headers
        /\ \A i \in 1..Len(schema) : file.records[i + 1].field_name = schema[i].field_name

\* a completed run whose answer lists the keys in another order than the schema
C9_Witness ==
    /\ pc = "done"
    /\ Len(schema) >= 2
    /\ schema[1].field_name # schema[2].field_name
    /\ Len(response.members) = 2
    /\ response.members[1][1] = schema[2].field_name
    /\ response.members[2][1] = schema[1].field_name

\* the schema of the run as schema.rs types it: kind a SchemaKind
AsSchemaFields(fs) == [i \in 1..Len(fs) |-> [fs[i] EXCEPT !.kind = SchemaKind(fs[i].kind)]]

\* C10: an answer that conforms to the output contract compiled from the
\* schema is decoded without error.
C10_ConformingAnswerDecodes ==
    ( /\ pc \in {"rows", "done", "panicked"}
      /\ response.is_string
      /\ response.is_json
      /\ Conforms(response.members, build_json_schema(AsSchemaFields(schema))) )
    => panic_msg.template # "Failed to parse extracted data into ExtractionResult"

(***************************************************************************)
(* The validator on a single raw row (specification RowSpec): the loader   *)
(* is given a schema of exactly one data row, its four cells drawn         *)
(* independently.                                                          *)
(***************************************************************************)
\* 21 and 61 two-byte characters: within the limits counted in characters,
\* past them counted in bytes
NameWide == Rep(233, 21)
DescWide == Rep(233, 61)

RowNames == {A, Name18, Name41, NameNonAscii, NameWide}
RowDescs == {Desc, Desc107, Desc121, DescNonAscii, DescWide}
RowKinds == {"text", "number", "categorical", "TEXT", "boolean"}
RowInfers == {"true", "false", "True", "maybe"}

AllRawRows == {Raw(n, d, k, i) : n \in RowNames, d \in RowDescs, k \in RowKinds, i \in RowInfers}

RowInit ==
    /\ input \in {<<r>> : r \in AllRawRows}
    /\ index = 0
    /\ fields = <<>>
    /\ seen_names = {}
    /\ result = Running
    /\ RunIdle

RowSpec == RowInit /\ [][Next]_vars

\* the error of the earliest violated check, the six checks taken in order
\* and length taken as the number of characters of the cell
EarliestViolation(raw) ==
    IF chars(raw.field_name) > FIELD_NAME_LIMIT THEN FieldNameTooLong
    ELSE IF ~is_ascii(raw.field_name) THEN NonAsciiFieldName
    ELSE IF chars(raw.description) > DESCRIPTION_LIMIT THEN DescriptionTooLong
    ELSE IF ~is_ascii(raw.description) THEN NonAsciiDescription
    ELSE IF raw.kind \notin {"categorical", "number", "text"} THEN InvalidKind
    ELSE IF raw.infer \notin {"true", "false"} THEN InvalidInfer
    ELSE NoError

\* C11: a raw row that violates one or more of the six checks is reported
\* with the error of the earliest violated check in the order field_name
\* length, field_name ASCII, description length, description ASCII, kind,
\* infer (length being the number of characters of the cell), and yields no
\* SchemaField.
C11_EarliestCheckReported ==
    (index = 1 /\ Len(input) = 1 /\ EarliestViolation(input[1]) # NoError) =>
        /\ result.status = "err"
        /\ result.cause = EarliestViolation(input[1])
        /\ fields = <<>>
        /\ result.fields = <<>>

====
